---- MODULE Spec2Model ----
(***************************************************************************)
(* toolbelt: copy_dir_with_pattern and get_sdk_include_dirs (src/lib.rs).  *)
(*                                                                         *)
(* A path is a sequence of components; the root directory is <<>> and ".." *)
(* is the parent component.  The file system is a set of directories       *)
(* (normalised absolute paths) and a function from the normalised paths of *)
(* the regular files to their content.  Strings of the include-path        *)
(* expander are sequences of characters.                                   *)
(***************************************************************************)
EXTENDS Integers, Sequences, FiniteSets, TLC

VARIABLES
    mode,             \* which routine this behaviour exercises: "copy" or "incl"
    dirs, files,      \* the file system
    source, destination, pattern,    \* arguments of copy_dir_with_pattern
    pc,               \* "call", "loop", "done"
    source_path,      \* canonicalised source (line 37)
    existing_paths,   \* the paths held by the Vec<PathBuf> of line 41
    pending,          \* entries the walker found when it opened the tree, not yet yielded
    yielded,          \* entries the walker has yielded as Ok
    globErrs,         \* entries that failed to resolve the walker may still yield
    result,           \* "none", "Ok", "Err", "panic"
    calls,            \* number of the current call
    pre,              \* file system when the current call started
    created,          \* directories the current call created
    written,          \* files the current call wrote: [entry, to, content]
    log,              \* failed operations of the current call, and entries handled after one
    skipped,          \* failed glob entries the current call flattened away
    hist,             \* result and file system of each finished call
    sdk_path, sdk_header_dirs, format,  \* arguments of get_sdk_include_dirs
    globOut,          \* what glob_with yields for each header-dir pattern
    ipc,              \* "call", "pattern", "entry", "done", "idle"
    hidx,             \* index of the pattern being expanded
    queue,            \* entries of the current pattern not yet consumed
    incl_dirs,        \* Vec<String> of line 249
    iskipped,         \* Err entries reported so far in this call
    returned          \* formats already run, and the list each returned

copyVars == <<dirs, files, source, destination, pattern, pc, source_path,
              existing_paths, pending, yielded, globErrs, result, calls, pre,
              created, written, log, skipped, hist>>
inclVars == <<sdk_path, sdk_header_dirs, format, globOut, ipc, hidx, queue,
              incl_dirs, iskipped, returned>>
vars == <<mode, copyVars, inclVars>>

----------------------------------------------------------------------------
(* Bounds *)

\* longest path of a file created during the walk that the walker still picks up
MaxDepth == 3
\* failed glob entries per copier call
MaxGlobErrs == 1
\* entries glob_with yields for one pattern
MaxMatches == 2

----------------------------------------------------------------------------
(* Paths (std::path) and the file system (std::fs) *)

UP == ".."

EmptyFiles == [p \in {} |-> 0]

Front(p) == SubSeq(p, 1, Len(p) - 1)
LastOf(p) == p[Len(p)]

IsPrefix(a, b) == Len(a) <= Len(b) /\ SubSeq(b, 1, Len(a)) = a

\* what the OS resolves a path to when every directory on the way exists
RECURSIVE NormFrom(_, _, _)
NormFrom(p, k, acc) ==
    IF k > Len(p) THEN acc
    ELSE NormFrom(p, k + 1,
                  IF p[k] = UP THEN (IF acc = <<>> THEN <<>> ELSE Front(acc))
                  ELSE Append(acc, p[k]))

Norm(p) == NormFrom(p, 1, <<>>)

Kind(d, f, n) == IF n \in d THEN "dir" ELSE IF n \in DOMAIN f THEN "file" ELSE "none"

\* every proper prefix of p resolves to a directory
Reachable(d, p) == \A k \in 0..(Len(p) - 1) : Norm(SubSeq(p, 1, k)) \in d

\* stat(2) of p
Lookup(d, f, p) == IF Reachable(d, p) THEN Kind(d, f, Norm(p)) ELSE "none"

\* nodes of the tree rooted at directory n, n excluded
Under(d, f, n) == {m \in d \cup DOMAIN f : IsPrefix(n, m) /\ m # n}

\* the tree rooted at n: its directories and its files with their content
Tree(d, f, n) ==
    [dirs  |-> {m \in d : IsPrefix(n, m)},
     files |-> [m \in {x \in DOMAIN f : IsPrefix(n, x)} |-> f[m]]]

\* std::fs::create_dir_all: creates every missing component from the top; fails
\* at a component that is a regular file, keeping what it created above it
RECURSIVE MkdirAll(_, _, _, _)
MkdirAll(d, f, p, k) ==
    IF k > Len(p) THEN [ok |-> TRUE, dirs |-> d]
    ELSE LET n == Norm(SubSeq(p, 1, k))
         IN  IF n \in DOMAIN f THEN [ok |-> FALSE, dirs |-> d]
             ELSE MkdirAll(d \cup {n}, f, p, k + 1)

\* std::fs::copy: the contents the destination file may hold afterwards; {} when
\* the copy fails.  from must be a regular file, to must not be a directory and
\* its directory must exist.  to is opened with O_TRUNC before from is read, so
\* copying a file onto itself may keep the content or leave the file empty (0).
CopyOutcomes(d, f, from, to) ==
    IF Lookup(d, f, from) # "file" THEN {}
    ELSE IF ~Reachable(d, to) \/ Norm(to) \in d THEN {}
    ELSE IF Norm(to) = Norm(from) THEN {f[Norm(from)], 0}
    ELSE {f[Norm(from)]}

----------------------------------------------------------------------------
(* copy_dir_with_pattern *)

\* faulty variant: a lexical normalisation, which never fails
CanonicalizeLexically(d, f, p) == {Norm(p)}

\* PathBuf::canonicalize (line 37): a set with the canonical path, {} on failure
Canonicalize(d, f, p) == IF Lookup(d, f, p) = "none" THEN {} ELSE {Norm(p)}

\* PathBuf::join (lines 38, 53, 63): an absolute argument replaces the path
Join(base, rel, relIsAbsolute) == IF relIsAbsolute THEN rel ELSE base \o rel

\* globwalk::glob on source_with_glob (lines 38, 43): the directory it walks is
\* the literal prefix of the expression; it yields every file and directory
\* beneath it whose name the glob part matches, at any depth, as a path that
\* begins with that literal prefix
WalkBase(sp, pat) == Join(sp, pat.pre, pat.abs)

GlobEntries(d, f, sp, pat) ==
    LET base == WalkBase(sp, pat)
        nb   == Norm(base)
    IN  IF Lookup(d, f, base) # "dir" THEN {}
        ELSE {base \o SubSeq(n, Len(nb) + 1, Len(n)) :
                n \in {m \in Under(d, f, nb) : LastOf(m) \in pat.names}}

\* Path::strip_prefix (lines 47-51): component-wise; {} when it fails
StripPrefix(p, prefix) ==
    IF IsPrefix(prefix, p) THEN {SubSeq(p, Len(prefix) + 1, Len(p))} ELSE {}

\* PathBuf::set_file_name("") (line 52): drops the last component
SetFileNameEmpty(rel) == Front(rel)

\* Vec::contains (line 55) and Vec::push (line 56); the vector is only ever
\* searched, so it is kept as the set of its elements
Contains(vec, x) == x \in vec
Push(vec, x) == vec \cup {x}

\* faulty variant: the error is dropped and the loop goes on
AfterTryIgnoringErr(ok) == "loop"

\* the ? operator of lines 59 and 64: an Err leaves the function at once
AfterTry(ok) == IF ok THEN "loop" ELSE "done"
ResultOfTry(ok, res) == IF ok THEN res ELSE "Err"

\* entries that appeared under the walked directory after the walk began (files
\* this call copied there): the walker, which reads directories lazily, may
\* still yield them
PickedUp ==
    {e \in GlobEntries(dirs, files, source_path, pattern) \ (yielded \cup pending) :
        Len(Norm(e)) <= MaxDepth}

Finished(res, d, f) == Append(hist, [result |-> res, dirs |-> d, files |-> f])

\* line 37, and the walker opened at lines 43-45
Enter ==
    /\ mode = "copy" /\ pc = "call"
    /\ LET can == Canonicalize(dirs, files, source)
       IN  IF can = {}
           THEN /\ pc' = "done"
                /\ result' = "panic"
                /\ hist' = Finished("panic", dirs, files)
                /\ UNCHANGED <<source_path, pending>>
           ELSE /\ source_path' = (CHOOSE c \in can : TRUE)
                /\ pending' = GlobEntries(dirs, files, source_path', pattern)
                /\ pc' = "loop"
                /\ UNCHANGED <<result, hist>>
    /\ UNCHANGED <<dirs, files, source, destination, pattern, existing_paths,
                   yielded, globErrs, calls, pre, created, written, log, skipped>>
    /\ UNCHANGED <<mode, inclVars>>

\* .flatten() of line 45 dropping an entry that failed to resolve
SkipGlobErr ==
    /\ mode = "copy" /\ pc = "loop"
    /\ globErrs > 0
    /\ globErrs' = globErrs - 1
    /\ skipped' = skipped + 1
    /\ UNCHANGED <<dirs, files, source, destination, pattern, pc, source_path,
                   existing_paths, pending, yielded, result, calls, pre,
                   created, written, log, hist>>
    /\ UNCHANGED <<mode, inclVars>>

\* one iteration of the loop, lines 46-65
CopyEntry ==
    /\ mode = "copy" /\ pc = "loop"
    /\ \E e \in pending \cup PickedUp :
        LET rels == StripPrefix(e, source_path) IN
        /\ pending' = pending \ {e}
        /\ yielded' = yielded \cup {e}
        /\ IF rels = {}
           THEN \* unwrap() of line 50
                /\ pc' = "done"
                /\ result' = "panic"
                /\ hist' = Finished("panic", dirs, files)
                /\ UNCHANGED <<dirs, files, existing_paths, created, written, log>>
           ELSE LET rel   == CHOOSE r \in rels : TRUE
                    cdp   == Join(destination, SetFileNameEmpty(rel), FALSE)
                    known == Contains(existing_paths, cdp)
                    mustCreate == ~known /\ Lookup(dirs, files, cdp) # "dir"
                    mk    == IF mustCreate THEN MkdirAll(dirs, files, cdp, 1)
                             ELSE [ok |-> TRUE, dirs |-> dirs]
                    mkLog == IF ~mk.ok THEN {[op |-> "create_dir_all", entry |-> e]}
                             ELSE {}
                    to    == Join(cdp, <<LastOf(e)>>, FALSE)
                    outs  == IF mk.ok THEN CopyOutcomes(mk.dirs, files, e, to) ELSE {}
                    ok    == mk.ok /\ outs # {}
                    cpLog == IF mk.ok /\ outs = {} THEN {[op |-> "copy", entry |-> e]}
                             ELSE {}
                IN  /\ existing_paths' =
                          IF known THEN existing_paths ELSE Push(existing_paths, cdp)
                    /\ dirs' = mk.dirs
                    /\ created' = created \cup (mk.dirs \ dirs)
                    /\ log' = [failed |-> log.failed \cup mkLog \cup cpLog,
                                late   |-> IF log.failed # {} THEN log.late \cup {e}
                                           ELSE log.late]
                    /\ IF ok
                       THEN \E c \in outs :
                              /\ files' = (Norm(to) :> c) @@ files
                              /\ written' = written \cup
                                    {[entry |-> e, to |-> Norm(to), content |-> c]}
                       ELSE UNCHANGED <<files, written>>
                    /\ pc' = AfterTry(ok)
                    /\ result' = ResultOfTry(ok, result)
                    /\ hist' = IF pc' = "done" THEN Finished(result', dirs', files')
                               ELSE hist
    /\ UNCHANGED <<source, destination, pattern, source_path, globErrs, calls,
                   pre, skipped>>
    /\ UNCHANGED <<mode, inclVars>>

\* line 66, once the walker is exhausted
LoopEnd ==
    /\ mode = "copy" /\ pc = "loop"
    /\ pending = {}
    /\ pc' = "done"
    /\ result' = "Ok"
    /\ hist' = Finished("Ok", dirs, files)
    /\ UNCHANGED <<dirs, files, source, destination, pattern, source_path,
                   existing_paths, pending, yielded, globErrs, calls, pre,
                   created, written, log, skipped>>
    /\ UNCHANGED <<mode, inclVars>>

\* after a first call that returned Ok, the caller runs copy_dir_with_pattern a
\* second time with the same arguments
CallAgain ==
    /\ mode = "copy" /\ pc = "done"
    /\ result = "Ok"
    /\ calls = 1
    /\ calls' = calls + 1
    /\ pc' = "call"
    /\ result' = "none"
    /\ source_path' = <<>>
    /\ existing_paths' = {}
    /\ pending' = {}
    /\ yielded' = {}
    /\ globErrs' = MaxGlobErrs
    /\ pre' = [dirs |-> dirs, files |-> files]
    /\ created' = {}
    /\ written' = {}
    /\ log' = [failed |-> {}, late |-> {}]
    /\ skipped' = 0
    /\ UNCHANGED <<dirs, files, source, destination, pattern, hist>>
    /\ UNCHANGED <<mode, inclVars>>

----------------------------------------------------------------------------
(* Inputs of copy_dir_with_pattern *)

SourceTrees ==
    { [dirs |-> {}, files |-> EmptyFiles],
      [dirs |-> {<<"s">>},
       files |-> (<<"s", "f">> :> 1) @@ (<<"s", "g">> :> 2)],
      [dirs |-> {<<"s">>, <<"s", "a">>},
       files |-> (<<"s", "f">> :> 1) @@ (<<"s", "a", "f">> :> 2)] }

\* a directory beside the source
OutsideTree == [dirs |-> {<<>>, <<"x">>}, files |-> (<<"x", "f">> :> 2)]

Sources == {<<"s">>, <<"s", "a", "..">>}

Destinations == {<<"d">>, <<"s", "d">>, <<"s">>}

DestKinds == {"absent", "empty", "old", "blockdir", "blockfile"}

\* what lies at destination D before the first call
DestTree(D, kind) ==
    CASE kind = "absent"    -> [dirs |-> {}, files |-> EmptyFiles]
      [] kind = "empty"     -> [dirs |-> {D}, files |-> EmptyFiles]
      [] kind = "old"       -> [dirs |-> {D}, files |-> (Append(D, "f") :> 2)]
      [] kind = "blockdir"  -> [dirs |-> {D}, files |-> (Append(D, "a") :> 2)]
      [] kind = "blockfile" -> [dirs |-> {D, Append(D, "f")}, files |-> EmptyFiles]

AllNames == {"s", "d", "a", "x", "f", "g"}

\* a glob pattern: its literal leading components, whether it is absolute, and
\* the names its glob part matches ({} when it has no glob part)
Patterns ==
    { [abs |-> FALSE, pre |-> <<>>,          names |-> {"f"}],
      [abs |-> FALSE, pre |-> <<>>,          names |-> {"f", "g"}],
      [abs |-> FALSE, pre |-> <<>>,          names |-> AllNames],
      [abs |-> FALSE, pre |-> <<"a">>,       names |-> {"f"}],
      [abs |-> FALSE, pre |-> <<"..", "x">>, names |-> {"f"}],
      [abs |-> TRUE,  pre |-> <<"x">>,       names |-> {"f"}],
      [abs |-> FALSE, pre |-> <<"f">>,       names |-> {}] }

InitCopy ==
    /\ mode = "copy"
    /\ source \in Sources
    /\ destination \in Destinations
    /\ pattern \in Patterns
    /\ \E st \in SourceTrees, kind \in DestKinds :
         LET dt == DestTree(destination, kind) IN
         /\ kind # "absent" =>
               /\ destination \notin st.dirs
               /\ Front(destination) \in st.dirs \cup OutsideTree.dirs
         /\ kind \notin {"absent", "empty"} => Front(destination) = <<>>
         /\ dirs = st.dirs \cup OutsideTree.dirs \cup dt.dirs
         /\ files = dt.files @@ st.files @@ OutsideTree.files
    /\ pc = "call"
    /\ source_path = <<>>
    /\ existing_paths = {}
    /\ pending = {}
    /\ yielded = {}
    /\ globErrs = MaxGlobErrs
    /\ result = "none"
    /\ calls = 1
    /\ pre = [dirs |-> dirs, files |-> files]
    /\ created = {}
    /\ written = {}
    /\ log = [failed |-> {}, late |-> {}]
    /\ skipped = 0
    /\ hist = <<>>

IdleIncl ==
    /\ sdk_path = <<>>
    /\ sdk_header_dirs = <<>>
    /\ format = "PLAIN"
    /\ globOut = <<>>
    /\ ipc = "idle"
    /\ hidx = 0
    /\ queue = <<>>
    /\ incl_dirs = <<>>
    /\ iskipped = 0
    /\ returned = [formats |-> {}, PLAIN |-> <<>>, CLANG |-> <<>>]

----------------------------------------------------------------------------
(* get_sdk_include_dirs *)

SLASH == "/"

\* format!("{}{}", sdk_path, hdir) of line 253: plain string concatenation
GlobExpr(sdk, hdir) == sdk \o hdir

\* glob_with (line 253) on an expression whose last component is the wildcard:
\* every path it yields is the expression with the wildcard replaced by the
\* matched name; an entry it cannot read is an Err
MatchedPath(expr, name) == SubSeq(expr, 1, Len(expr) - 1) \o <<name>>

GlobWith(expr, outcome) ==
    [i \in 1..Len(outcome) |->
        IF outcome[i] = "Err" THEN [ok |-> FALSE, path |-> <<>>]
        ELSE [ok |-> TRUE, path |-> MatchedPath(expr, outcome[i])]]

\* PathBuf::join of line 258 on the strings: an absolute path replaces sdk, and
\* a separator is added only when sdk does not end with one
PathJoin(sdk, path) ==
    IF path # <<>> /\ path[1] = SLASH THEN path
    ELSE IF sdk = <<>> \/ sdk[Len(sdk)] = SLASH THEN sdk \o path
    ELSE sdk \o <<SLASH>> \o path

\* Path::display (lines 261, 263): lossy, a byte that is not UTF-8 ("xFF") is
\* shown as the replacement character
Display(path) == [i \in 1..Len(path) |-> IF path[i] = "xFF" THEN "uFFFD" ELSE path[i]]

\* faulty variant: the CLANG arm separates the flag from the path
FormatEntrySpaced(fmt, ipath) ==
    IF fmt = "CLANG" THEN <<"-", "I", " ">> \o Display(ipath) ELSE Display(ipath)

\* the match on format, lines 259-264
FormatEntry(fmt, ipath) ==
    IF fmt = "CLANG" THEN <<"-", "I">> \o Display(ipath) ELSE Display(ipath)

\* faulty variant: a directory already in the list is not pushed again
PushDirOnce(vec, x) ==
    IF \E i \in 1..Len(vec) : vec[i] = x THEN vec ELSE Append(vec, x)

\* Vec::push of lines 261 and 263
PushDir(vec, x) == Append(vec, x)

\* faulty variant: a failed entry leaves an empty string in the list
OnGlobErrPushEmpty(vec) == Append(vec, <<>>)

\* the Err arm, line 266: a diagnostic on stderr, the list is left alone
OnGlobErr(vec) == vec

\* lines 243-250
InclEnter ==
    /\ mode = "incl" /\ ipc = "call"
    /\ incl_dirs' = <<>>
    /\ hidx' = 1
    /\ ipc' = "pattern"
    /\ UNCHANGED <<sdk_path, sdk_header_dirs, format, globOut, queue, iskipped,
                   returned>>
    /\ UNCHANGED <<mode, copyVars>>

\* line 252 taking the next pattern, line 253 expanding it
InclNextPattern ==
    /\ mode = "incl" /\ ipc = "pattern"
    /\ hidx <= Len(sdk_header_dirs)
    /\ queue' = GlobWith(GlobExpr(sdk_path, sdk_header_dirs[hidx]),
                         globOut[sdk_header_dirs[hidx]])
    /\ ipc' = "entry"
    /\ UNCHANGED <<sdk_path, sdk_header_dirs, format, globOut, hidx, incl_dirs,
                   iskipped, returned>>
    /\ UNCHANGED <<mode, copyVars>>

\* lines 257-265
InclOk ==
    /\ mode = "incl" /\ ipc = "entry"
    /\ queue # <<>> /\ Head(queue).ok
    /\ LET ipath == PathJoin(sdk_path, Head(queue).path)
       IN  incl_dirs' = PushDir(incl_dirs, FormatEntry(format, ipath))
    /\ queue' = Tail(queue)
    /\ UNCHANGED <<sdk_path, sdk_header_dirs, format, globOut, ipc, hidx,
                   iskipped, returned>>
    /\ UNCHANGED <<mode, copyVars>>

\* line 266
InclErr ==
    /\ mode = "incl" /\ ipc = "entry"
    /\ queue # <<>> /\ ~Head(queue).ok
    /\ incl_dirs' = OnGlobErr(incl_dirs)
    /\ queue' = Tail(queue)
    /\ iskipped' = iskipped + 1
    /\ UNCHANGED <<sdk_path, sdk_header_dirs, format, globOut, ipc, hidx,
                   returned>>
    /\ UNCHANGED <<mode, copyVars>>

\* the inner loop of lines 253-268 is exhausted
InclPatternDone ==
    /\ mode = "incl" /\ ipc = "entry"
    /\ queue = <<>>
    /\ hidx' = hidx + 1
    /\ ipc' = "pattern"
    /\ UNCHANGED <<sdk_path, sdk_header_dirs, format, globOut, queue, incl_dirs,
                   iskipped, returned>>
    /\ UNCHANGED <<mode, copyVars>>

\* line 271
InclReturn ==
    /\ mode = "incl" /\ ipc = "pattern"
    /\ hidx > Len(sdk_header_dirs)
    /\ ipc' = "done"
    /\ returned' = [returned EXCEPT !.formats = @ \cup {format},
                                    ![format] = incl_dirs]
    /\ UNCHANGED <<sdk_path, sdk_header_dirs, format, globOut, hidx, queue,
                   incl_dirs, iskipped>>
    /\ UNCHANGED <<mode, copyVars>>

\* the caller asks for the same directories in the other format
InclCallAgain ==
    /\ mode = "incl" /\ ipc = "done"
    /\ returned.formats # {"PLAIN", "CLANG"}
    /\ format' = IF format = "PLAIN" THEN "CLANG" ELSE "PLAIN"
    /\ ipc' = "call"
    /\ hidx' = 0
    /\ queue' = <<>>
    /\ iskipped' = 0
    /\ UNCHANGED <<sdk_path, sdk_header_dirs, globOut, incl_dirs, returned>>
    /\ UNCHANGED <<mode, copyVars>>

----------------------------------------------------------------------------
(* Inputs of get_sdk_include_dirs *)

SdkRoots == {<<"/", "k", "/">>, <<"/", "k">>, <<"k", "/">>}

HeaderA == <<"a", "/", "*">>
HeaderB == <<"b", "/", "*">>

HeaderDirLists ==
    {<<>>, <<HeaderA>>, <<HeaderA, HeaderB>>, <<HeaderB, HeaderA>>,
     <<HeaderA, HeaderA>>}

\* sequences over S of length at most n
RECURSIVE SeqsUpTo(_, _)
SeqsUpTo(S, n) ==
    IF n = 0 THEN {<<>>}
    ELSE LET shorter == SeqsUpTo(S, n - 1)
         IN  shorter \cup {Append(q, x) : q \in {r \in shorter : Len(r) = n - 1}, x \in S}

\* what the directory a/ may yield: names, or entries that cannot be read
OutcomesA == SeqsUpTo({"h", "xFF", "Err"}, MaxMatches)
\* b/ holds at most one entry
OutcomesB == SeqsUpTo({"h", "Err"}, 1)

Uses(list, h) == \E i \in 1..Len(list) : list[i] = h

IdleCopy ==
    /\ dirs = {<<>>}
    /\ files = EmptyFiles
    /\ source = <<>>
    /\ destination = <<>>
    /\ pattern = [abs |-> FALSE, pre |-> <<>>, names |-> {}]
    /\ pc = "idle"
    /\ source_path = <<>>
    /\ existing_paths = {}
    /\ pending = {}
    /\ yielded = {}
    /\ globErrs = 0
    /\ result = "none"
    /\ calls = 0
    /\ pre = [dirs |-> dirs, files |-> files]
    /\ created = {}
    /\ written = {}
    /\ log = [failed |-> {}, late |-> {}]
    /\ skipped = 0
    /\ hist = <<>>

InitIncl ==
    /\ mode = "incl"
    /\ sdk_path \in SdkRoots
    /\ sdk_header_dirs \in HeaderDirLists
    /\ format \in {"PLAIN", "CLANG"}
    /\ \E oa \in OutcomesA, ob \in OutcomesB :
         /\ ~Uses(sdk_header_dirs, HeaderA) => oa = <<>>
         /\ ~Uses(sdk_header_dirs, HeaderB) => ob = <<>>
         /\ globOut = (HeaderA :> oa) @@ (HeaderB :> ob)
    /\ ipc = "call"
    /\ hidx = 0
    /\ queue = <<>>
    /\ incl_dirs = <<>>
    /\ iskipped = 0
    /\ returned = [formats |-> {}, PLAIN |-> <<>>, CLANG |-> <<>>]

Init == (InitCopy /\ IdleIncl) \/ (InitIncl /\ IdleCopy)

Next ==
    \/ Enter \/ SkipGlobErr \/ CopyEntry \/ LoopEnd \/ CallAgain
    \/ InclEnter \/ InclNextPattern \/ InclOk \/ InclErr \/ InclPatternDone
    \/ InclReturn \/ InclCallAgain

Spec == Init /\ [][Next]_vars

----------------------------------------------------------------------------
(* Properties *)

CopyDone == mode = "copy" /\ pc = "done"

InDest(p) == IsPrefix(destination, p)

\* an entry's path relative to the canonical source root, and where the copier
\* puts it: destination joined with that relative path
RelOf(e) == SubSeq(e, Len(source_path) + 1, Len(e))
TargetOf(e) == Norm(destination \o RelOf(e))

DestEmptyBefore == Under(pre.dirs, pre.files, destination) = {}

SourceMissing == Lookup(pre.dirs, pre.files, source) = "none"

\* C1: after a first call that returned Ok on an empty or absent destination,
\* the files under destination are exactly the copies of the matched entries,
\* each at destination joined with the entry's relative path, inside the
\* destination tree, holding the content of its source file.
C1_ExactlyTheMatchedFiles ==
    (CopyDone /\ calls = 1 /\ result = "Ok" /\ DestEmptyBefore) =>
        /\ \A e \in yielded :
              /\ InDest(TargetOf(e))
              /\ TargetOf(e) \in DOMAIN files
              /\ Norm(e) \in DOMAIN files
              /\ files[TargetOf(e)] = files[Norm(e)]
              /\ Norm(e) \in DOMAIN pre.files =>
                    files[TargetOf(e)] = pre.files[Norm(e)]
        /\ {m \in DOMAIN files : InDest(m)} = {TargetOf(e) : e \in yielded}

\* containing directories of the matched files, with their ancestors up to
\* destination, as paths under destination
NeededDirs ==
    UNION {{Norm(destination \o SubSeq(RelOf(e), 1, k)) : k \in 0..(Len(RelOf(e)) - 1)} :
              e \in yielded}

\* C2: after a call that returned Ok, the directories it created under
\* destination are exactly the missing containing directories of the matched
\* files and their ancestors up to destination, and every directory it created
\* has a copied file beneath it.
C2_ExactlyTheNeededDirs ==
    (CopyDone /\ result = "Ok") =>
        /\ {c \in created : InDest(c)} = NeededDirs \ pre.dirs
        /\ \A c \in created : \E w \in written : IsPrefix(c, w.to)

\* C3: every directory the copier creates and every file it writes lies inside
\* the destination tree.
C3_NothingOutsideDestination ==
    mode = "copy" =>
        /\ \A c \in created : InDest(c)
        /\ \A w \in written : InDest(w.to)

\* C4: after any call, whatever its result and wherever destination lies, the
\* tree under source is what it was before the call.
C4_SourceUntouched ==
    (CopyDone /\ ~SourceMissing) =>
        Tree(dirs, files, Norm(source)) = Tree(pre.dirs, pre.files, Norm(source))

\* C5: when source does not exist or cannot be canonicalised the call fails
\* fatally before the glob expansion starts: it creates and writes nothing,
\* yields no entry and does not return Ok.
C5_MissingSourceIsFatal ==
    (mode = "copy" /\ SourceMissing) =>
        /\ pc \in {"call", "done"}
        /\ pc = "done" => result = "panic"
        /\ result \in {"none", "panic"}
        /\ dirs = pre.dirs /\ files = pre.files
        /\ created = {} /\ written = {}
        /\ yielded = {} /\ pending = {} /\ skipped = 0

C5_Witness ==
    /\ CopyDone /\ SourceMissing /\ result = "panic"
    /\ Lookup(dirs, files, destination) = "none"

\* C6: a failed directory creation or file copy ends the call with that error:
\* exactly one operation failed, it is the last thing the call did, no entry is
\* handled after it, and Ok is returned only when nothing failed and no entry
\* was left.
C6_FirstErrorStops ==
    mode = "copy" =>
        /\ log.late = {}
        /\ log.failed # {} =>
              /\ pc = "done" /\ result = "Err"
              /\ Cardinality(log.failed) = 1
        /\ result = "Err" => log.failed # {}
        /\ result = "Ok" => (log.failed = {} /\ pending = {})

C6_Witness ==
    /\ CopyDone /\ result = "Err"
    /\ written # {}
    /\ pending # {}

\* C7: a second call with the same arguments after a first one that returned
\* Ok returns Ok too and leaves the destination tree as the first left it.
C7_SecondRunChangesNothing ==
    (mode = "copy" /\ Len(hist) = 2 /\ hist[1].result = "Ok") =>
        /\ hist[2].result = "Ok"
        /\ Tree(hist[2].dirs, hist[2].files, destination) =
           Tree(hist[1].dirs, hist[1].files, destination)

\* the names a pattern's expansion yielded as Ok, in order
OkNames(outcome) == SelectSeq(outcome, LAMBDA x : x # "Err")

\* the entries one pattern contributes: for each Ok match of sdk_path ++ hdir,
\* the formatted path-join of sdk_path with the matched path
EntriesOf(fmt, hdir) ==
    LET names == OkNames(globOut[hdir])
    IN  [i \in 1..Len(names) |->
            FormatEntry(fmt, PathJoin(sdk_path, MatchedPath(sdk_path \o hdir, names[i])))]

RECURSIVE ExpectedDirs(_, _)
ExpectedDirs(fmt, k) ==
    IF k = 0 THEN <<>>
    ELSE ExpectedDirs(fmt, k - 1) \o EntriesOf(fmt, sdk_header_dirs[k])

\* C8: the returned list is the concatenation, over the patterns in input
\* order, of one formatted entry per Ok match in the order yielded, duplicates
\* kept.
C8_ConcatenationInOrder ==
    mode = "incl" =>
        \A fmt \in returned.formats :
            returned[fmt] = ExpectedDirs(fmt, Len(sdk_header_dirs))

C8_Witness ==
    /\ mode = "incl" /\ ipc = "done"
    /\ Len(incl_dirs) >= 3
    /\ \E i, j \in 1..Len(incl_dirs) : i < j /\ incl_dirs[i] = incl_dirs[j]
    /\ \E i, j \in 1..Len(incl_dirs) : incl_dirs[i] # incl_dirs[j]

\* C9: for the same patterns, sdk root and matches the PLAIN and the CLANG list
\* have the same length and each CLANG entry is -I followed by the PLAIN entry
\* at the same index.
C9_ClangIsPrefixedPlain ==
    (mode = "incl" /\ returned.formats = {"PLAIN", "CLANG"}) =>
        /\ Len(returned.CLANG) = Len(returned.PLAIN)
        /\ \A i \in 1..Len(returned.PLAIN) :
              returned.CLANG[i] = <<"-", "I">> \o returned.PLAIN[i]

C9_Witness ==
    /\ mode = "incl" /\ returned.formats = {"PLAIN", "CLANG"}
    /\ Len(returned.PLAIN) >= 2
    /\ \E i \in 1..Len(returned.PLAIN) :
          \E k \in 1..Len(returned.PLAIN[i]) : returned.PLAIN[i][k] = "uFFFD"

\* C10: a glob entry that fails to resolve is skipped and changes nothing: the
\* copier's file system, bookkeeping and result, and the expander's list, stay
\* as they are, the loop stays in place and goes on with the next entry.
C10_FailedEntryIsSkipped ==
    [][ /\ skipped' = skipped + 1 =>
              /\ pc' = "loop"
              /\ UNCHANGED <<dirs, files, existing_paths, pending, yielded,
                             result, created, written, log, hist>>
        /\ iskipped' = iskipped + 1 =>
              /\ ipc' = "entry"
              /\ queue' = Tail(queue)
              /\ UNCHANGED <<incl_dirs, hidx, returned>> ]_vars

C10_Witness ==
    /\ mode = "incl" /\ ipc = "done"
    /\ sdk_header_dirs = <<HeaderA>>
    /\ globOut[HeaderA] = <<"h", "Err">> \/ globOut[HeaderA] = <<"Err", "h">>
    /\ iskipped = 1
    /\ Len(incl_dirs) = 1

====
